---- MODULE Spec2Model ----
(***************************************************************************)
(* Leaflet.BigImage: the export control in its two variants,               *)
(*   BigImageControl      (src/unnamed/part_000, Leaflet 2)                *)
(*   L.Control.BigImage   (src/src/Leaflet.BigImage.js, legacy)            *)
(*                                                                         *)
(* One step of the model is one browser task together with the microtasks  *)
(* it queues: a click on the download button, an image load / error event, *)
(* a timer, a toBlob callback.  Promise continuations are microtasks, so   *)
(* the code that runs after an await is part of the step that settles the  *)
(* awaited promise.                                                        *)
(*                                                                         *)
(* Lengths are kept in quarter pixels (1 px = 4 units) and scales in       *)
(* halves (scale 1.5 = 3 halves): bounds.min -= width / 2 * (scale - 1)    *)
(* is then exact integer arithmetic.                                       *)
(***************************************************************************)
EXTENDS Integers, Sequences, FiniteSets, TLC

VARIABLES
    variant,      \* "new" (BigImageControl) or "legacy" (L.Control.BigImage)
    options,      \* this.options: minScale, maxScale (halves), exportFormat, fileName
    map,          \* the host map: size, pixel origin, zoom, layers
    scaleInput,   \* this._scaleInput.value: Blank ("") or a number in halves
    formatSel,    \* this._formatSelect.value, or NoSelector
    isProcessing, \* this.isProcessing (BigImageControl only)
    progress,     \* print-disabled class and loader shown
    tilesImgs,    \* this.tilesImgs: layer id -> sequence of tile entries
    markers,      \* this.markers:   layer id -> entry
    paths,        \* this.paths / self.path: layer id -> entry
    circles,      \* this.circles:   layer id -> layer id (the live layer)
    bounds,       \* this.bounds (quarter pixels)
    zoom,         \* this.zoom
    tileSize,     \* self.tileSize (legacy only)
    canvas,       \* this.canvas: the export that created it, 0 before the first
    fetches,      \* every Image requested so far, with its promise and timer
    blobs,        \* pending canvas.toBlob callbacks
    exports,      \* history: one record per accepted submit
    clicks,       \* history: number of clicks on the download button
    lastSubmit    \* history: the last click: the scale submitted and what became of it

vars == <<variant, options, map, scaleInput, formatSel, isProcessing, progress,
          tilesImgs, markers, paths, circles, bounds, zoom, tileSize, canvas,
          fetches, blobs, exports, clicks, lastSubmit>>

-----------------------------------------------------------------------------
(* Bounds of the model *)

MaxClicks == 2
MaxScale2 == 3
MaxZoomIns == 1

NoSelector == "noselector"
Formats == <<"png", "jpeg", "webp">>

\* the value of the number input: "" (nothing, or text that is no number: the
\* input sanitises it to ""), or a number in halves
Blank == [blank |-> TRUE, n |-> 0]
Num(n) == [blank |-> FALSE, n |-> n]

\* the values a user can leave in the number input
InputValues == {Blank} \cup {Num(n) : n \in 0 .. MaxScale2 + 1}

-----------------------------------------------------------------------------
(* Small helpers *)

Px(n) == 4 * n

Range(s) == {s[i] : i \in DOMAIN s}

RECURSIVE SetToSeq(_)
\* the elements of a finite set of integers in ascending order: the order in
\* which JavaScript enumerates integer-like property keys
SetToSeq(S) ==
    IF S = {} THEN <<>>
    ELSE LET m == CHOOSE x \in S : \A y \in S : x <= y
         IN <<m>> \o SetToSeq(S \ {m})

EmptyObj == [k \in {} |-> 0]

Put(obj, k, v) == [j \in DOMAIN obj \cup {k} |-> IF j = k THEN v ELSE obj[j]]

RECURSIVE Pow2(_)
Pow2(n) == IF n <= 0 THEN 1 ELSE 2 * Pow2(n - 1)

-----------------------------------------------------------------------------
(* The host map and its layers.  A layer carries what the control reads    *)
(* from it; pos, rings and radius are already projected to world pixels at *)
(* the zoom the map starts with.                                           *)

Layer(id, kind) ==
    [id |-> id, kind |-> kind,
     pos |-> <<4, 1>>,        \* map.project(layer._latlng), px
     tileSize |-> 8,          \* layer.options.tileSize / layer._tileSize.x, px
     wrap |-> 0,              \* n > 0: layer._adjustTilePoint wraps x into 0 .. n-1; 0: no such method
     opacity |-> 100,         \* layer.options.opacity, percent
     urlOk |-> TRUE,          \* FALSE: layer.getTileUrl throws (a template variable without value)
     icon |-> "src",          \* marker: "src" (image icon), "html" (DivIcon), "none"
     anchor |-> <<0, 0>>,     \* icon.options.iconAnchor, px
     depth |-> 0,             \* nesting of layer._latlngs: 0 none, 1 flat, 2 rings, 3 polygons
     polys |-> <<>>,          \* layer._latlngs as polygons of rings of points, px
     fill |-> FALSE,          \* layer.options.fill
     fillRuleOk |-> TRUE,     \* FALSE: options.fillRule is no CanvasFillRule, ctx.fill throws
     stroke |-> TRUE,         \* options.stroke !== false && options.weight !== 0
     dash |-> FALSE,          \* options.dashArray is set
     radius |-> 1,            \* circle: layer._radius, px
     radiusY |-> 1,           \* circle: layer._radiusY, px
     empty |-> FALSE]         \* circle: layer._empty()

TileL(id)    == [Layer(id, "tile") EXCEPT !.tileSize = 64]
SmallTileL(id) == Layer(id, "tile")
BadUrlTileL(id) == [TileL(id) EXCEPT !.urlOk = FALSE]
MarkerL(id)  == Layer(id, "marker")
FarMarkerL(id) == [Layer(id, "marker") EXCEPT !.pos = <<40, 1>>]
TextMarkerL(id) == [Layer(id, "marker") EXCEPT !.icon = "html", !.pos = <<3, 1>>]
CircleL(id)  == Layer(id, "circle")
BadCircleL(id) == [Layer(id, "circle") EXCEPT !.fill = TRUE, !.fillRuleOk = FALSE]
\* a polygon: one outer ring, filled
PolygonL(id) ==
    [Layer(id, "path") EXCEPT !.depth = 2, !.fill = TRUE,
                              !.polys = << << << <<3, 1>>, <<5, 1>>, <<9, 9>> >> >> >>]
\* a polygon with a hole: an outer ring and an inner ring, filled
HoledPolygonL(id) ==
    [Layer(id, "path") EXCEPT !.depth = 2, !.fill = TRUE,
                              !.polys = << << << <<3, 1>>, <<5, 1>>, <<9, 9>> >>,
                                              << <<4, 1>>, <<5, 2>>, <<4, 2>> >> >> >>]
\* a polyline that lies to the right of the viewport
OffCanvasPolylineL(id) ==
    [Layer(id, "path") EXCEPT !.depth = 1,
                              !.polys = << << << <<50, 1>>, <<60, 1>> >> >> >>]
\* a polyline given as a flat list of points
PolylineL(id) ==
    [Layer(id, "path") EXCEPT !.depth = 1,
                              !.polys = << << << <<3, 1>>, <<50, 1>> >> >> >>]
\* the same polyline with options.dashArray set
DashedPolylineL(id) == [PolylineL(id) EXCEPT !.dash = TRUE]
\* the same polyline with options.fill set
FilledPolylineL(id) == [PolylineL(id) EXCEPT !.fill = TRUE]
\* a CircleMarker: a Path that is no Circle and has no _latlngs
CircleMarkerL(id) == Layer(id, "path")
\* a LayerGroup or any other layer the control does not handle
OtherL(id) == Layer(id, "other")

\* a map showing the given layers, listed in ascending _leaflet_id, the
\* order of map.eachLayer
MapOf(size, ls) ==
    [size |-> size, origin |-> <<2, 0>>, zoom |-> 3, zoom0 |-> 3, layers |-> ls]
\* the same map panned so that its viewport starts at origin
MapAt(origin, size, ls) == [MapOf(size, ls) EXCEPT !.origin = origin]

LayerById(id) == CHOOSE l \in Range(map.layers) : l.id = id

getSize == map.size
getZoom == map.zoom
\* map.getPixelBounds(): a fresh Bounds of the viewport, in quarter pixels
getPixelBounds ==
    [min |-> <<Px(map.origin[1]), Px(map.origin[2])>>,
     max |-> <<Px(map.origin[1] + map.size[1]), Px(map.origin[2] + map.size[2])>>]
\* map.project(latlng): world pixels at the map's current zoom, which double
\* with every zoom level
ZoomFactor(z) == Pow2(z - map.zoom0)
project(p) == <<Px(p[1]) * ZoomFactor(map.zoom), Px(p[2]) * ZoomFactor(map.zoom)>>
\* layer._radius of a Circle: pixels at the map's current zoom
_radius(layer) == layer.radius * ZoomFactor(map.zoom)
_radiusY(layer) == layer.radiusY * ZoomFactor(map.zoom)

-----------------------------------------------------------------------------
(* Scale: validation and expansion *)

\* Number(this._scaleInput.value): Number("") is 0
NumberOf(v) == IF v.blank THEN 0 ELSE v.n

\* _validateScale without the upper bound
ValidateScaleNoMax(scale) ==
    /\ scale # 0
    /\ scale >= options.minScale

\* _validateScale(scale): scale && scale >= minScale && scale <= maxScale
_validateScale(scale) ==
    /\ scale # 0
    /\ scale >= options.minScale
    /\ scale <= options.maxScale

\* the legacy click handler's test, on the input's string value
\* (!v || v < minScale || v > maxScale): "" is falsy, "0" is not
LegacyRejects(v) ==
    \/ v.blank
    \/ v.n < options.minScale
    \/ v.n > options.maxScale

\* canvas.width is an unsigned long: assigning a fraction truncates it
ToLength(halfPx) == halfPx \div 2

\* _applyScale that enlarges the canvas and leaves the bounds as captured
ApplyScaleCanvasOnly(scale, b, cs) ==
    IF scale = 0 \/ scale <= 2 THEN [bounds |-> b, size |-> cs]
    ELSE [bounds |-> b, size |-> <<ToLength(cs[1] * scale), ToLength(cs[2] * scale)>>]

\* _applyScale(scale) / _changeScale(scale) on bounds b and canvas size cs;
\* scale in halves
_applyScale(scale, b, cs) ==
    IF scale = 0 \/ scale <= 2 THEN [bounds |-> b, size |-> cs]
    ELSE LET addX == ((b.max[1] - b.min[1]) * (scale - 2)) \div 4
             addY == ((b.max[2] - b.min[2]) * (scale - 2)) \div 4
         IN [bounds |-> [min |-> <<b.min[1] - addX, b.min[2] - addY>>,
                         max |-> <<b.max[1] + addX, b.max[2] + addY>>],
             size |-> <<ToLength(cs[1] * scale), ToLength(cs[2] * scale)>>]

-----------------------------------------------------------------------------
(* Collect: what the per-layer routines do to the caches.  The routines    *)
(* work on a record c of the fields they change:                           *)
(*   tilesImgs, markers, paths, circles, fetches, thrown                   *)
(* thrown is set when an exception leaves the routine.                     *)

Floor(a, b) == a \div b

Ceil(a, b) == -((-a) \div b)

\* tile bounds whose maximum is rounded up
TileBoundsCeil(b, ts) ==
    [min |-> <<Floor(b.min[1], Px(ts)), Floor(b.min[2], Px(ts))>>,
     max |-> <<Ceil(b.max[1], Px(ts)), Ceil(b.max[2], Px(ts))>>]

\* new Bounds(bounds.min.divideBy(tileSize)._floor(), bounds.max.divideBy(tileSize)._floor())
tileBounds(b, ts) ==
    [min |-> <<Floor(b.min[1], Px(ts)), Floor(b.min[2], Px(ts))>>,
     max |-> <<Floor(b.max[1], Px(ts)), Floor(b.max[2], Px(ts))>>]

\* the tile points in the order of the two loops: rows outside, columns inside
TileLoop(tb) ==
    LET cols == tb.max[1] - tb.min[1] + 1
        rows == tb.max[2] - tb.min[2] + 1
    IN IF cols <= 0 \/ rows <= 0 THEN <<>>
       ELSE [k \in 1 .. rows * cols |->
                <<tb.min[1] + ((k - 1) % cols), tb.min[2] + ((k - 1) \div cols)>>]

\* rows above the world are skipped (if (j < 0) continue / if (tilePoint.y < 0) return)
RowInWorld(tp) == tp[2] >= 0

\* layer._adjustTilePoint(tilePoint), when the layer has the method
_adjustTilePoint(layer, tp) ==
    IF layer.wrap = 0 THEN tp ELSE <<tp[1] % layer.wrap, tp[2]>>

\* originalTilePoint.scaleBy(tileSize).subtract(bounds.min)
tilePos(tp, ts, b) == <<Px(ts) * tp[1] - b.min[1], Px(ts) * tp[2] - b.min[2]>>

\* _loadTile up to the return of the promise: a new Image with its timer armed;
\* when getTileUrl throws the timer is cleared and the promise resolved at once
_loadTile(e, layer, tp, pos, ts, z) ==
    [exp |-> e, kind |-> "tile", layer |-> layer.id,
     key |-> <<tp[1], tp[2], z>>, x |-> pos[1], y |-> pos[2],
     opacity |-> layer.opacity, tileSize |-> ts,
     img     |-> IF layer.urlOk THEN "loading" ELSE "nosrc",
     timer   |-> IF layer.urlOk THEN "armed" ELSE "cleared",
     endedBy |-> IF layer.urlOk THEN "none" ELSE "urlerror"]

RECURSIVE LoadTiles(_, _, _, _, _, _)
LoadTiles(tps, e, layer, ts, b, z) ==
    IF tps = <<>> THEN <<>>
    ELSE <<_loadTile(e, layer, _adjustTilePoint(layer, Head(tps)),
                     tilePos(Head(tps), ts, b), ts, z)>>
         \o LoadTiles(Tail(tps), e, layer, ts, b, z)

\* _processTileLayer up to its await
_processTileLayer(c, e, layer, b, z) ==
    LET ts  == layer.tileSize
        tps == SelectSeq(TileLoop(tileBounds(b, ts)), RowInWorld)
    IN [c EXCEPT !.tilesImgs = Put(@, layer.id, <<>>),
                 !.fetches = @ \o LoadTiles(tps, e, layer, ts, b, z)]

\* _isPointVisible(point) on a canvas of size cs (px)
_isPointVisible(p, cs) ==
    /\ p[1] >= 0 /\ p[2] >= 0
    /\ p[1] <= Px(cs[1]) /\ p[2] <= Px(cs[2])

\* project(latlng) - bounds.min
ToCanvas(p, b) == <<project(p)[1] - b.min[1], project(p)[2] - b.min[2]>>

\* _loadMarkerImage up to the return of the promise
_loadMarkerImage(e, layer, p) ==
    [exp |-> e, kind |-> "marker", layer |-> layer.id,
     key |-> <<>>, x |-> p[1], y |-> p[2],
     opacity |-> 100, tileSize |-> 0,
     img |-> "loading", timer |-> "armed", endedBy |-> "none"]

\* _processMarker up to its await
_processMarker(c, e, layer, b, cs) ==
    IF layer.id \in DOMAIN c.markers THEN c
    ELSE LET q == ToCanvas(layer.pos, b)
             p == <<q[1] - Px(layer.anchor[1]), q[2] - Px(layer.anchor[2])>>
         IN IF ~_isPointVisible(p, cs) THEN c
            ELSE IF layer.icon = "src"
                 THEN [c EXCEPT !.fetches = Append(@, _loadMarkerImage(e, layer, p))]
            ELSE IF layer.icon = "html"
                 THEN [c EXCEPT !.markers =
                          Put(@, layer.id, [html |-> TRUE, x |-> p[1], y |-> p[2], img |-> 0])]
            ELSE c

\* _processCircle
_processCircle(c, layer) ==
    IF layer.id \in DOMAIN c.circles THEN c
    ELSE [c EXCEPT !.circles = Put(@, layer.id, layer.id)]

RECURSIVE Flat(_)
\* Array.prototype.flat() on a list of lists
Flat(ss) == IF ss = <<>> THEN <<>> ELSE Head(ss) \o Flat(Tail(ss))

\* the list of points _processPath / _getPathLayer walks:
\*   latlngs = options.fill ? _latlngs[0] : _latlngs, flattened once when nested.
\* ok is FALSE when the walk throws: _latlngs[0] of a flat list is a LatLng,
\* which has no forEach; of an empty list it is undefined
PathLatlngs(layer) ==
    LET polys == layer.polys
        rings == polys[1]
    IN CASE layer.depth = 1 /\ layer.fill  -> [ok |-> FALSE, pts |-> <<>>]
         [] layer.depth = 1 /\ ~layer.fill -> [ok |-> TRUE, pts |-> rings[1]]
         [] layer.depth = 2 /\ layer.fill  ->
                IF rings = <<>> THEN [ok |-> FALSE, pts |-> <<>>]
                ELSE [ok |-> TRUE, pts |-> rings[1]]
         [] layer.depth = 2 /\ ~layer.fill -> [ok |-> TRUE, pts |-> Flat(rings)]
         [] layer.depth = 3 /\ layer.fill  -> [ok |-> TRUE, pts |-> Flat(rings)]
         \* a list of polygons flattened once is a list of rings, and
         \* map.project of a ring is no point
         [] OTHER -> [ok |-> FALSE, pts |-> <<>>]

\* the projected points of a path, in the order walked
PathParts(pts, b) == [i \in DOMAIN pts |-> ToCanvas(pts[i], b)]

\* _processPath
_processPath(c, layer, b, cs) ==
    IF layer.depth = 0 THEN c
    ELSE LET ll == PathLatlngs(layer)
             parts == PathParts(ll.pts, b)
         IN IF ~ll.ok THEN [c EXCEPT !.thrown = TRUE]
            ELSE IF \E i \in DOMAIN parts : _isPointVisible(parts[i], cs)
                 THEN [c EXCEPT !.paths =
                          Put(@, layer.id, [parts |-> parts, closed |-> layer.fill])]
            ELSE c

\* History of the assignments to the caches, kept with the export whose
\* caches they went into: one list per cache, in the order of the
\* assignments.  by is the export whose task made the assignment; init marks
\* `this.tilesImgs[id] = {}`.
Categories == {"tile", "marker", "path", "circle"}
NoWrites == [cat \in Categories |-> <<>>]
Written(layer, key, by, init) == [layer |-> layer, key |-> key, by |-> by, init |-> init]

\* the assignment one call of the eachLayer callback made before returning
Logged(c, c2, e, layer) ==
    LET w == Written(layer.id, <<>>, e, FALSE)
    IN CASE layer.kind = "tile" ->
                [c2 EXCEPT !.writes["tile"] = Append(@, [w EXCEPT !.init = TRUE])]
         [] layer.kind = "marker" /\ c2.markers # c.markers ->
                [c2 EXCEPT !.writes["marker"] = Append(@, w)]
         [] layer.kind = "circle" /\ c2.circles # c.circles ->
                [c2 EXCEPT !.writes["circle"] = Append(@, w)]
         [] layer.kind = "path" /\ c2.paths # c.paths ->
                [c2 EXCEPT !.writes["path"] = Append(@, w)]
         [] OTHER -> c2

\* the body of the eachLayer callback of _processLayers
ProcessLayer(c, e, layer, b, z, cs) ==
    Logged(c,
           CASE layer.kind = "tile"   -> _processTileLayer(c, e, layer, b, z)
             [] layer.kind = "marker" -> _processMarker(c, e, layer, b, cs)
             [] layer.kind = "circle" -> _processCircle(c, layer)
             [] layer.kind = "path"   -> _processPath(c, layer, b, cs)
             [] OTHER -> c,
           e, layer)

RECURSIVE _processLayers(_, _, _, _, _, _)
\* _processLayers up to its await: eachLayer stops at the first exception
_processLayers(c, e, layers, b, z, cs) ==
    IF layers = <<>> \/ c.thrown THEN c
    ELSE _processLayers(ProcessLayer(c, e, Head(layers), b, z, cs),
                        e, Tail(layers), b, z, cs)

-----------------------------------------------------------------------------
(* Render: the draw operations, in the order the code issues them.  Each   *)
(* routine yields the list of draws it attempts; a draw that throws ends   *)
(* the pass.                                                               *)

Draw(op, id, key, x, y, w, h, img) ==
    [op |-> op, id |-> id, key |-> key, x |-> x, y |-> y, w |-> w, h |-> h,
     img |-> img, parts |-> <<>>, throws |-> FALSE]

Throwing(d) == [d EXCEPT !.throws = TRUE]

RECURSIVE Reverse(_)
Reverse(s) == IF s = <<>> THEN <<>> ELSE Append(Reverse(Tail(s)), Head(s))

\* enumeration of the keys from the largest down
ObjectKeysDescending(obj) == Reverse(SetToSeq(DOMAIN obj))

\* Object.values(obj) of an object with integer-like keys
ObjectKeys(obj) == SetToSeq(DOMAIN obj)

RECURSIVE FlatMap(_, _)
FlatMap(F(_), ks) == IF ks = <<>> THEN <<>> ELSE F(Head(ks)) \o FlatMap(F, Tail(ks))

\* _renderToCanvas without the background fill
NoBackground(cs) == <<>>

\* ctx.fillStyle = 'white'; ctx.fillRect(0, 0, canvas.width, canvas.height)
DrawBackground(cs) == << Draw("fillRect", 0, <<>>, 0, 0, Px(cs[1]), Px(cs[2]), 0) >>

\* _renderTiles: every layer's tiles, in the order their keys were added
_renderTiles(tiles) ==
    LET OfLayer(id) ==
            [k \in DOMAIN tiles[id] |->
                LET t == tiles[id][k]
                IN Draw("tile", id, t.key, t.x, t.y, Px(t.tileSize), Px(t.tileSize), t.img)]
    IN FlatMap(OfLayer, ObjectKeys(tiles))

\* _applyPathStyle(options) / _feelPath(options): ctx.fill(options.fillRule)
\* throws a TypeError when the rule is no CanvasFillRule
StyleThrows(layer) == layer.fill /\ ~layer.fillRuleOk

\* _renderPaths with _drawPath
_renderPaths(ps) ==
    LET One(id) ==
            LET d == [Draw("path", id, <<>>, 0, 0, 0, 0, 0) EXCEPT !.parts = ps[id].parts]
            IN << IF StyleThrows(LayerById(id)) THEN Throwing(d) ELSE d >>
    IN FlatMap(One, ObjectKeys(ps))

\* _renderMarkers with _drawText
_renderMarkers(ms) ==
    LET One(id) ==
            << Draw(IF ms[id].html THEN "text" ELSE "marker", id, <<>>,
                    ms[id].x, ms[id].y, 0, 0, ms[id].img) >>
    IN FlatMap(One, ObjectKeys(ms))

Max(a, b) == IF a >= b THEN a ELSE b

\* _drawCircle(layer): centre and radii are read from the live layer and the
\* map when the circle is drawn
_drawCircle(layer, b) ==
    IF layer.empty THEN <<>>
    ELSE LET p == ToCanvas(layer.pos, b)
             r == Max(_radius(layer), 1)
             ry == Max(_radiusY(layer), 1)
             d == Draw("circle", layer.id, <<>>, p[1], p[2], Px(r), Px(ry), 0)
         IN << IF StyleThrows(layer) THEN Throwing(d) ELSE d >>

\* _renderCircles
_renderCircles(cs, b) ==
    LET One(id) == _drawCircle(LayerById(cs[id]), b)
    IN FlatMap(One, ObjectKeys(cs))

\* _renderToCanvas that draws the markers before the paths
RenderMarkersFirst(S, size) ==
    DrawBackground(size)
    \o _renderTiles(S.tilesImgs)
    \o _renderMarkers(S.markers)
    \o _renderPaths(S.paths)
    \o _renderCircles(S.circles, S.bounds)

\* the draws attempted by _renderToCanvas, in order
RenderPasses(S, size) ==
    DrawBackground(size)
    \o _renderTiles(S.tilesImgs)
    \o _renderPaths(S.paths)
    \o _renderMarkers(S.markers)
    \o _renderCircles(S.circles, S.bounds)

\* The drawing state of a 2D context, as far as the draws set or use it:
\* globalAlpha (percent), whether a line dash is set, lineWidth (px),
\* strokeStyle, lineCap, lineJoin, and whether a scale transform is in force.
\* This is the state of a new context.
Neutral ==
    [alpha |-> 100, dash |-> FALSE, lineWidth |-> 1, strokeStyle |-> "black",
     lineCap |-> "butt", lineJoin |-> "miter", scaled |-> FALSE]

\* _applyPathStyle(options) on context state ctx: the stroke settings stay,
\* globalAlpha is set back to 1
_applyPathStyle(ctx, layer) ==
    IF layer.stroke
    THEN [ctx EXCEPT !.dash = layer.dash, !.lineWidth = 3, !.strokeStyle = "color",
                     !.lineCap = "round", !.lineJoin = "round", !.alpha = 100]
    ELSE [ctx EXCEPT !.alpha = 100]

\* _drawText(marker): fillStyle is put back; strokeStyle and lineWidth stay
_drawText(ctx) == [ctx EXCEPT !.strokeStyle = "white", !.lineWidth = 2]

\* the context state one draw leaves behind.  _drawCircle restores the
\* transform before it styles the arc.
CtxAfterDraw(ctx, d) ==
    CASE d.op = "tile" -> [ctx EXCEPT !.alpha = LayerById(d.id).opacity]
      [] d.op = "path" -> _applyPathStyle(ctx, LayerById(d.id))
      [] d.op = "circle" -> _applyPathStyle(ctx, LayerById(d.id))
      [] d.op = "text" -> _drawText(ctx)
      [] OTHER -> ctx

RECURSIVE CtxAfter(_, _)
\* the context state before draw k of the draws ds on a new canvas:
\* `ctx.globalAlpha = 1` ends _renderTiles
CtxBefore(ds, k) ==
    LET ctx == CtxAfter(ds, k - 1)
    IN IF ds[k].op = "tile" THEN ctx ELSE [ctx EXCEPT !.alpha = 100]
\* and after the first k draws
CtxAfter(ds, k) == IF k = 0 THEN Neutral ELSE CtxAfterDraw(CtxBefore(ds, k), ds[k])

\* the parts of the context state a draw uses without setting them itself
Uses(d) ==
    CASE d.op = "text" -> {"alpha", "dash", "lineCap", "lineJoin", "scaled"}
      [] d.op = "marker" -> {"alpha", "scaled"}
      [] d.op = "tile" -> {"scaled"}
      [] OTHER -> {}

\* the index of the first draw that throws, 0 if none does
FirstThrow(ds) ==
    IF \E i \in DOMAIN ds : ds[i].throws
    THEN CHOOSE i \in DOMAIN ds : ds[i].throws /\ \A j \in 1 .. i - 1 : ~ds[j].throws
    ELSE 0

\* what a pass leaves on the canvas, and whether it threw
Performed(ds) ==
    LET t == FirstThrow(ds)
    IN [ops |-> IF t = 0 THEN ds ELSE SubSeq(ds, 1, t - 1), thrown |-> t # 0]

\* _renderToCanvas on the control's fields S; size is the current canvas's
_renderToCanvas(S, size) == Performed(RenderPasses(S, size))

-----------------------------------------------------------------------------
(* The control's fields as one record, so that the routines of a handler   *)
(* can be chained; Commit makes the record the next state.                 *)

Cur ==
    [tilesImgs |-> tilesImgs, markers |-> markers, paths |-> paths,
     circles |-> circles, bounds |-> bounds, zoom |-> zoom, tileSize |-> tileSize,
     canvas |-> canvas, fetches |-> fetches, blobs |-> blobs, exports |-> exports,
     isProcessing |-> isProcessing, progress |-> progress,
     scaleInput |-> scaleInput, formatSel |-> formatSel]

Commit(S) ==
    \E T \in {S} :
       /\ tilesImgs' = T.tilesImgs
       /\ markers' = T.markers
       /\ paths' = T.paths
       /\ circles' = T.circles
       /\ bounds' = T.bounds
       /\ zoom' = T.zoom
       /\ tileSize' = T.tileSize
       /\ canvas' = T.canvas
       /\ fetches' = T.fetches
       /\ blobs' = T.blobs
       /\ exports' = T.exports
       /\ isProcessing' = T.isProcessing
       /\ progress' = T.progress
       /\ scaleInput' = T.scaleInput
       /\ formatSel' = T.formatSel

\* the history record of an export: what it captured, its canvas and what
\* happened on it, the alerts and downloads it caused
NewExport(scale, size, b0, sc, z) ==
    [scale |-> scale, size |-> size, bounds0 |-> b0, bounds |-> sc.bounds,
     cs |-> sc.size, zoom |-> z,
     phase |-> "collecting",   \* collecting, encoding, done, failed
     error |-> "none",         \* none, collect, render, noblob
     rendered |-> FALSE, pendingAtRender |-> 0,
     selector |-> "",          \* the selector's value when toBlob was called
     draws |-> <<>>, alerts |-> 0, downloads |-> <<>>, urlLog |-> <<>>,
     pass |-> <<>>,            \* the draws of this export's own Render
     writes |-> NoWrites]      \* the assignments to the caches it set up

\* the fetches of export e whose promise is not resolved yet
Unsettled(fs, e) == {i \in DOMAIN fs : fs[i].exp = e /\ fs[i].endedBy = "none"}

\* alert(...)
alert(S, e) == [S EXCEPT !.exports[e].alerts = @ + 1]

-----------------------------------------------------------------------------
(* BigImageControl: _handleDownload and what it awaits *)

\* _downloadCanvas that ignores the selector
ExportFormatOnly(S) == options.exportFormat

\* this._formatSelect ? this._formatSelect.value : this.options.exportFormat
ChosenFormat(S) == IF S.formatSel # NoSelector THEN S.formatSel ELSE options.exportFormat

\* _downloadCanvas up to the return of canvas.toBlob
_downloadCanvas(S, e) ==
    [S EXCEPT !.blobs = Append(@, [exp |-> e, canvas |-> S.canvas, format |-> ChosenFormat(S)]),
              !.exports[e].phase = "encoding",
              !.exports[e].selector = S.formatSel]

\* _showProgress(show)
_showProgress(S, show) == [S EXCEPT !.progress = show]

\* a catch block that only logs
CatchSilently(S, e, where) ==
    [S EXCEPT !.exports[e].phase = "failed", !.exports[e].error = where]

\* the catch block of _handleDownload
Catch(S, e, where) ==
    alert([S EXCEPT !.exports[e].phase = "failed", !.exports[e].error = where], e)

\* the finally block of _handleDownload
Finally(S) == _showProgress([S EXCEPT !.isProcessing = FALSE], FALSE)

\* _generateAndDownloadImage after `await this._processLayers()`, then the
\* catch and finally of _handleDownload.  It works on this.canvas and the
\* caches as they are when it runs.
AfterRender(S, e, r) ==
    LET S1 == [S EXCEPT !.exports[S.canvas].draws = @ \o r.ops,
                        !.exports[e].pass = r.ops,
                        !.exports[e].rendered = TRUE,
                        !.exports[e].pendingAtRender = Cardinality(Unsettled(S.fetches, e))]
    IN Finally(IF r.thrown THEN Catch(S1, e, "render") ELSE _downloadCanvas(S1, e))

\* r is what `await this._renderToCanvas()` did
AfterCollect(S, e) ==
    CHOOSE T \in {AfterRender(S, e, r) : r \in {_renderToCanvas(S, S.exports[S.canvas].cs)}} : TRUE

\* Promise.race in place of Promise.allSettled: the first promise to settle
AnySettled(fs, e) ==
    \/ \A i \in DOMAIN fs : fs[i].exp # e
    \/ \E i \in DOMAIN fs : fs[i].exp = e /\ fs[i].endedBy # "none"

\* Promise.allSettled over the layer promises, each of which is allSettled
\* over its tile promises: settled when no promise of the export is pending
AllSettled(fs, e) == Unsettled(fs, e) = {}

\* run the continuation of export e if its await is over
Resume(S, e) ==
    IF S.exports[e].phase = "collecting" /\ AllSettled(S.fetches, e)
    THEN AfterCollect(S, e)
    ELSE S

\* a callback settles a promise of export e: its effect S on the control,
\* then, in the same task, the continuation of the await if it was the last
Settle(S, e) == \E S0 \in {S} : Commit(Resume(S0, e))

\* _generateAndDownloadImage(scale) up to `await this._processLayers()`
_generateAndDownloadImage(S, e, scale) ==
    LET size == getSize
        z    == getZoom
        b0   == getPixelBounds
        sc   == _applyScale(scale, b0, size)
        c0   == [tilesImgs |-> EmptyObj, markers |-> EmptyObj, paths |-> EmptyObj,
                 circles |-> EmptyObj, fetches |-> S.fetches, thrown |-> FALSE,
                 writes |-> NoWrites]
        c    == _processLayers(c0, e, map.layers, sc.bounds, z, sc.size)
        S1   == [S EXCEPT !.tilesImgs = c.tilesImgs, !.markers = c.markers,
                          !.paths = c.paths, !.circles = c.circles,
                          !.zoom = z, !.bounds = sc.bounds, !.canvas = e,
                          !.fetches = c.fetches,
                          !.exports = Append(@, [NewExport(scale, size, b0, sc, z)
                                                    EXCEPT !.writes = c.writes])]
    IN IF c.thrown THEN Finally(Catch(S1, e, "collect")) ELSE Resume(S1, e)

\* what the user has put into the panel when the button is clicked: the
\* scale input holds v and the selector, if there is one, shows f
Entered(S, v, f) ==
    [S EXCEPT !.scaleInput = v,
              !.formatSel = IF @ = NoSelector THEN @ ELSE f]

\* _handleDownload from `this.isProcessing = true` on
StartExport(S) ==
    _generateAndDownloadImage(_showProgress([S EXCEPT !.isProcessing = TRUE], TRUE),
                              Len(S.exports) + 1, NumberOf(S.scaleInput))

\* _handleDownload without the isProcessing check
HandleOutcomeNoBusy(S) ==
    IF ~_validateScale(NumberOf(S.scaleInput)) THEN "invalid" ELSE "accepted"

\* the three ways through _handleDownload
HandleOutcome(S) ==
    IF S.isProcessing THEN "busy"
    ELSE IF ~_validateScale(NumberOf(S.scaleInput)) THEN "invalid"
    ELSE "accepted"

\* _handleDownload: a click on the download button
_handleDownload(v, f) ==
    LET S == Entered(Cur, v, f)
        o == HandleOutcome(S)
    IN /\ variant = "new"
       /\ clicks < MaxClicks
       /\ clicks' = clicks + 1
       /\ lastSubmit' = [outcome |-> o, value |-> v]
       /\ UNCHANGED <<variant, options, map>>
       /\ Commit(CASE o = "busy"    -> S
                   [] o = "invalid" -> [S EXCEPT !.scaleInput = Num(options.minScale)]
                   [] OTHER         -> StartExport(S))

\* a tile entry is stored under its key: a new key is added last, a key
\* that is there keeps its place
PutTile(ts, t) ==
    IF \E k \in DOMAIN ts : ts[k].key = t.key
    THEN [k \in DOMAIN ts |-> IF ts[k].key = t.key THEN t ELSE ts[k]]
    ELSE Append(ts, t)

\* clearTimeout(timeout)
clearTimeout(f) == [f EXCEPT !.timer = IF @ = "armed" THEN "cleared" ELSE @]

\* resolve(): the first call settles the promise, later calls do nothing
resolve(f, how) == [f EXCEPT !.endedBy = IF @ = "none" THEN how ELSE @]

\* image.onload of _loadTile
TileOnloadEffect(S, i) ==
    LET f == S.fetches[i]
        g == clearTimeout([f EXCEPT !.img = "loaded"])
        t == [key |-> f.key, x |-> f.x, y |-> f.y, opacity |-> f.opacity,
              tileSize |-> f.tileSize, img |-> i]
    IN IF f.layer \in DOMAIN S.tilesImgs
       THEN [S EXCEPT !.tilesImgs[f.layer] = PutTile(@, t),
                      !.fetches[i] = resolve(g, "load"),
                      !.exports[Len(S.exports)].writes["tile"] =
                          Append(@, Written(f.layer, f.key, f.exp, FALSE))]
       \* this.tilesImgs[id] is undefined: the handler throws before resolve()
       ELSE [S EXCEPT !.fetches[i] = g]

TileOnload(i) ==
    /\ variant = "new"
    /\ fetches[i].kind = "tile"
    /\ fetches[i].img = "loading"
    /\ Settle(TileOnloadEffect(Cur, i), fetches[i].exp)
    /\ UNCHANGED <<variant, options, map, clicks, lastSubmit>>

\* image.onerror of _loadTile and of _loadMarkerImage
OnerrorEffect(S, i) ==
    [S EXCEPT !.fetches[i] = resolve(clearTimeout([@ EXCEPT !.img = "failed"]), "error")]

TileOnerror(i) ==
    /\ variant = "new"
    /\ fetches[i].kind = "tile"
    /\ fetches[i].img = "loading"
    /\ Settle(OnerrorEffect(Cur, i), fetches[i].exp)
    /\ UNCHANGED <<variant, options, map, clicks, lastSubmit>>

TileTimeoutMs == 10000
MarkerTimeoutMs == 5000

Delay(f) == IF f.kind = "tile" THEN TileTimeoutMs ELSE MarkerTimeoutMs

\* the timers of one export are all set in the task of its click, so one
\* with a shorter delay fires (or is cleared) before one with a longer delay
TimerDue(i) ==
    /\ fetches[i].timer = "armed"
    /\ \A j \in DOMAIN fetches :
          (fetches[j].exp = fetches[i].exp /\ fetches[j].timer = "armed")
              => Delay(fetches[j]) >= Delay(fetches[i])

\* a timer callback that does not resolve the promise
TimeoutNoResolve(S, i) == [S EXCEPT !.fetches[i].timer = "fired"]

\* the timer callback of _loadTile and of _loadMarkerImage: resolve()
TimeoutEffect(S, i) ==
    [S EXCEPT !.fetches[i] = resolve([@ EXCEPT !.timer = "fired"], "timeout")]

TileTimeout(i) ==
    /\ variant = "new"
    /\ fetches[i].kind = "tile"
    /\ TimerDue(i)
    /\ Settle(TimeoutEffect(Cur, i), fetches[i].exp)
    /\ UNCHANGED <<variant, options, map, clicks, lastSubmit>>

\* image.onload of _loadMarkerImage
MarkerOnloadEffect(S, i) ==
    LET f == S.fetches[i]
        m == [html |-> FALSE, x |-> f.x, y |-> f.y, img |-> i]
    IN [S EXCEPT !.markers = Put(@, f.layer, m),
                 !.fetches[i] = resolve(clearTimeout([f EXCEPT !.img = "loaded"]), "load"),
                 !.exports[Len(S.exports)].writes["marker"] =
                     Append(@, Written(f.layer, <<>>, f.exp, FALSE))]

MarkerOnload(i) ==
    /\ variant = "new"
    /\ fetches[i].kind = "marker"
    /\ fetches[i].img = "loading"
    /\ Settle(MarkerOnloadEffect(Cur, i), fetches[i].exp)
    /\ UNCHANGED <<variant, options, map, clicks, lastSubmit>>

MarkerOnerror(i) ==
    /\ variant = "new"
    /\ fetches[i].kind = "marker"
    /\ fetches[i].img = "loading"
    /\ Settle(OnerrorEffect(Cur, i), fetches[i].exp)
    /\ UNCHANGED <<variant, options, map, clicks, lastSubmit>>

MarkerTimeout(i) ==
    /\ variant = "new"
    /\ fetches[i].kind = "marker"
    /\ TimerDue(i)
    /\ Settle(TimeoutEffect(Cur, i), fetches[i].exp)
    /\ UNCHANGED <<variant, options, map, clicks, lastSubmit>>

RemoveAt(q, k) == SubSeq(q, 1, k - 1) \o SubSeq(q, k + 1, Len(q))

\* what the toBlob callback of _downloadCanvas does with a blob: the link is
\* given its name and object URL, clicked, and the URL revoked
DownloadSteps == <<"createObjectURL", "click", "revokeObjectURL">>

\* the callback passed to canvas.toBlob by _downloadCanvas
BlobCallbackEffect(S, k, blob) ==
    LET e == S.blobs[k].exp
        S1 == [S EXCEPT !.blobs = RemoveAt(@, k), !.exports[e].phase = "done"]
    IN IF ~blob
       THEN alert([S1 EXCEPT !.exports[e].error = "noblob"], e)
       ELSE [S1 EXCEPT !.exports[e].downloads =
                          Append(@, [base |-> options.fileName, ext |-> S.blobs[k].format]),
                       !.exports[e].urlLog = @ \o DownloadSteps]

BlobCallback(k, blob) ==
    /\ variant = "new"
    /\ Commit(BlobCallbackEffect(Cur, k, blob))
    /\ UNCHANGED <<variant, options, map, clicks, lastSubmit>>

-----------------------------------------------------------------------------
(* L.Control.BigImage: the click listener of the download button, _print   *)
(* and what it waits for.  An image has no timer and no onerror handler;   *)
(* every layer is collected inside a try block.                            *)

\* _loadTile(tilePoint, tilePos, layer, resolve) up to its return; when
\* getTileUrl throws, the promise around the call is rejected
LegacyLoadTile(e, layer, tp, pos, ts, z) ==
    [_loadTile(e, layer, tp, pos, ts, z) EXCEPT
        !.timer = "none",
        !.endedBy = IF layer.urlOk THEN "none" ELSE "rejected"]

RECURSIVE LegacyLoadTiles(_, _, _, _, _, _)
LegacyLoadTiles(tps, e, layer, ts, b, z) ==
    IF tps = <<>> THEN <<>>
    ELSE <<LegacyLoadTile(e, layer, _adjustTilePoint(layer, Head(tps)),
                          tilePos(Head(tps), ts, b), ts, z)>>
         \o LegacyLoadTiles(Tail(tps), e, layer, ts, b, z)

\* _getTileLayer(layer, resolve) up to its return
_getTileLayer(c, e, layer, b, z) ==
    LET ts  == layer.tileSize
        tps == SelectSeq(TileLoop(tileBounds(b, ts)), RowInWorld)
    IN [c EXCEPT !.tileSize = ts,
                 !.tilesImgs = IF tps = <<>> THEN @ ELSE Put(@, layer.id, <<>>),
                 !.fetches = @ \o LegacyLoadTiles(tps, e, layer, ts, b, z)]

\* _getMarkerLayer(layer, resolve) up to its return
_getMarkerLayer(c, e, layer, b, cs) ==
    IF layer.id \in DOMAIN c.markers THEN c
    ELSE LET q == ToCanvas(layer.pos, b)
             p == <<q[1] - Px(layer.anchor[1]), q[2] - Px(layer.anchor[2])>>
         IN IF _isPointVisible(p, cs)
            THEN [c EXCEPT !.fetches =
                     Append(@, [_loadMarkerImage(e, layer, p) EXCEPT !.timer = "none"])]
            ELSE c

\* the points _getPathLayer walks: latlngs is not flattened, so a list of
\* rings or of polygons makes map.project throw
LegacyPathLatlngs(layer) ==
    LET rings == layer.polys[1]
    IN CASE layer.depth = 1 /\ ~layer.fill -> [ok |-> TRUE, pts |-> rings[1]]
         [] layer.depth = 2 /\ layer.fill /\ rings # <<>> -> [ok |-> TRUE, pts |-> rings[1]]
         [] OTHER -> [ok |-> FALSE, pts |-> <<>>]

\* pixelPoint.x < canvas.width && pixelPoint.y < canvas.height
LegacyPointCorrect(p, cs) == p[1] < Px(cs[1]) /\ p[2] < Px(cs[2])

\* _getPathLayer(layer, resolve); an exception is caught in _getLayers
_getPathLayer(c, layer, b, cs) ==
    IF layer.depth = 0 THEN c
    ELSE LET ll == LegacyPathLatlngs(layer)
             parts == PathParts(ll.pts, b)
         IN IF ll.ok /\ \E i \in DOMAIN parts : LegacyPointCorrect(parts[i], cs)
            THEN [c EXCEPT !.paths =
                     Put(@, layer.id, [parts |-> parts, closed |-> layer.fill])]
            ELSE c

\* the body of the eachLayer callback of _getLayers
GetLayer(c, e, layer, b, z, cs) ==
    CASE layer.kind = "marker" /\ layer.icon = "src" -> _getMarkerLayer(c, e, layer, b, cs)
      [] layer.kind = "tile"   -> _getTileLayer(c, e, layer, b, z)
      [] layer.kind = "circle" -> _processCircle(c, layer)
      [] layer.kind = "path"   -> _getPathLayer(c, layer, b, cs)
      [] OTHER -> c

RECURSIVE _getLayers(_, _, _, _, _, _)
\* _getLayers(resolve) up to its return
_getLayers(c, e, layers, b, z, cs) ==
    IF layers = <<>> THEN c
    ELSE _getLayers(GetLayer(c, e, Head(layers), b, z, cs), e, Tail(layers), b, z, cs)

\* the tile loop of _print: every tile is drawn with self.tileSize
LegacyRenderTiles(tiles, ts) ==
    LET OfLayer(id) ==
            [k \in DOMAIN tiles[id] |->
                LET t == tiles[id][k]
                IN Draw("tile", id, t.key, t.x, t.y, Px(ts), Px(ts), t.img)]
    IN FlatMap(OfLayer, ObjectKeys(tiles))

\* _drawCircle(layer) of the legacy control: this.scale is no function, so
\* a circle whose two radii differ throws
LegacyDrawCircle(layer, b) ==
    IF layer.empty THEN <<>>
    ELSE LET p == ToCanvas(layer.pos, b)
             r == Max(_radius(layer), 1)
             ry == Max(_radiusY(layer), 1)
             d == Draw("circle", layer.id, <<>>, p[1], p[2], Px(r), Px(ry), 0)
         IN << IF ry # r \/ StyleThrows(layer) THEN Throwing(d) ELSE d >>

LegacyRenderCircles(cs, b) ==
    LET One(id) == LegacyDrawCircle(LayerById(cs[id]), b)
    IN FlatMap(One, ObjectKeys(cs))

\* the draw loops of _print: tiles, paths, markers, circles; no background
LegacyRender(S) ==
    Performed(LegacyRenderTiles(S.tilesImgs, S.tileSize)
              \o _renderPaths(S.paths)
              \o _renderMarkers(S.markers)
              \o LegacyRenderCircles(S.circles, S.bounds))

\* the two then-callbacks of _print: draw, then toBlob and leave the busy
\* state; when a draw throws the chain is rejected and nothing follows
LegacyAfterCollect(S, e) ==
    LET r  == LegacyRender(S)
        S1 == [S EXCEPT !.exports[S.canvas].draws = @ \o r.ops,
                        !.exports[e].pass = r.ops,
                        !.exports[e].rendered = TRUE,
                        !.exports[e].pendingAtRender = Cardinality(Unsettled(S.fetches, e))]
    IN IF r.thrown
       THEN [S1 EXCEPT !.exports[e].phase = "failed", !.exports[e].error = "render"]
       ELSE [S1 EXCEPT !.blobs = Append(@, [exp |-> e, canvas |-> S.canvas, format |-> "png"]),
                       !.exports[e].phase = "encoding",
                       !.progress = FALSE]

\* Promise.all over the layer promises, each Promise.all over its tiles:
\* fulfilled when every image of the export has loaded
AllLoaded(fs, e) == \A i \in DOMAIN fs : fs[i].exp = e => fs[i].endedBy = "load"

LegacyResume(S, e) ==
    IF S.exports[e].phase = "collecting" /\ AllLoaded(S.fetches, e)
    THEN LegacyAfterCollect(S, e)
    ELSE S

\* an onload callback of export e: its effect S, then, in the same task, the
\* then-callbacks of _print if it was the export's last image
LegacySettle(S, e) == \E S0 \in {S} : Commit(LegacyResume(S0, e))

\* _print() up to its return
_print(S, e, scale) ==
    LET size == getSize
        z    == getZoom
        b0   == getPixelBounds
        sc   == _applyScale(scale, b0, size)
        c0   == [tilesImgs |-> EmptyObj, markers |-> EmptyObj, paths |-> EmptyObj,
                 circles |-> EmptyObj, fetches |-> S.fetches, tileSize |-> S.tileSize]
        c    == _getLayers(c0, e, map.layers, sc.bounds, z, sc.size)
        S1   == [S EXCEPT !.tilesImgs = c.tilesImgs, !.markers = c.markers,
                          !.paths = c.paths, !.circles = c.circles,
                          !.zoom = z, !.bounds = sc.bounds, !.canvas = e,
                          !.tileSize = c.tileSize, !.fetches = c.fetches,
                          !.exports = Append(@, NewExport(scale, size, b0, sc, z))]
    IN LegacyResume(S1, e)

\* the click listener of the download button
LegacyClick(v) ==
    LET S == [Cur EXCEPT !.scaleInput = v]
        rejected == LegacyRejects(v)
    IN /\ variant = "legacy"
       /\ clicks < MaxClicks
       /\ clicks' = clicks + 1
       /\ lastSubmit' = [outcome |-> IF rejected THEN "invalid" ELSE "accepted", value |-> v]
       /\ UNCHANGED <<variant, options, map>>
       /\ Commit(IF rejected
                 THEN [S EXCEPT !.scaleInput = Num(options.minScale)]
                 ELSE _print(_showProgress(S, TRUE), Len(S.exports) + 1, NumberOf(v)))

\* image.onload of the legacy _loadTile: the first image of a key is kept
LegacyTileOnloadEffect(S, i) ==
    LET f == S.fetches[i]
        t == [key |-> f.key, x |-> f.x, y |-> f.y, opacity |-> f.opacity,
              tileSize |-> f.tileSize, img |-> i]
    IN IF f.layer \in DOMAIN S.tilesImgs
       THEN [S EXCEPT !.tilesImgs[f.layer] =
                          IF \E k \in DOMAIN @ : @[k].key = f.key THEN @ ELSE Append(@, t),
                      !.fetches[i] = resolve([f EXCEPT !.img = "loaded"], "load")]
       ELSE [S EXCEPT !.fetches[i].img = "loaded"]

LegacyTileOnload(i) ==
    /\ variant = "legacy"
    /\ fetches[i].kind = "tile"
    /\ fetches[i].img = "loading"
    /\ LegacySettle(LegacyTileOnloadEffect(Cur, i), fetches[i].exp)
    /\ UNCHANGED <<variant, options, map, clicks, lastSubmit>>

\* image.onload of _getMarkerLayer
LegacyMarkerOnload(i) ==
    /\ variant = "legacy"
    /\ fetches[i].kind = "marker"
    /\ fetches[i].img = "loading"
    /\ LegacySettle(MarkerOnloadEffect(Cur, i), fetches[i].exp)
    /\ UNCHANGED <<variant, options, map, clicks, lastSubmit>>

\* the toBlob callback of _print: URL.createObjectURL(null) throws
LegacyBlobCallbackEffect(S, k, blob) ==
    LET e == S.blobs[k].exp
        S1 == [S EXCEPT !.blobs = RemoveAt(@, k), !.exports[e].phase = "done"]
    IN IF ~blob
       THEN [S1 EXCEPT !.exports[e].error = "noblob"]
       ELSE [S1 EXCEPT !.exports[e].downloads = Append(@, [base |-> "bigImage", ext |-> "png"]),
                       !.exports[e].urlLog = @ \o <<"createObjectURL", "click">>]

LegacyBlobCallback(k, blob) ==
    /\ variant = "legacy"
    /\ \E S0 \in {LegacyBlobCallbackEffect(Cur, k, blob)} : Commit(S0)
    /\ UNCHANGED <<variant, options, map, clicks, lastSubmit>>

-----------------------------------------------------------------------------
(* The state after construction and onAdd *)

Options(min, max, selector) ==
    [minScale |-> min, maxScale |-> max, exportFormat |-> "png",
     fileName |-> "mapExport", showFormatSelector |-> selector]

\* the defaults but for the scale range: scales from 1 up, with the selector
DefaultOptions == Options(2, MaxScale2, TRUE)
\* scales from 0.5 up, showFormatSelector: false
WideOptions == Options(1, MaxScale2, FALSE)
\* scales 1 to 1.5, showFormatSelector: false
PlainOptions == Options(2, MaxScale2, FALSE)

\* the controls and maps explored: options, then viewport size and layers
Scenarios ==
    { <<DefaultOptions, MapOf(<<4, 2>>, <<>>)>>,
      <<WideOptions, MapOf(<<5, 3>>, <<>>)>>,
      <<PlainOptions, MapOf(<<4, 2>>, << TileL(1), MarkerL(2), PolygonL(3), CircleL(4) >>)>>,
      <<PlainOptions, MapOf(<<4, 2>>, << TileL(1), FilledPolylineL(2), OtherL(3) >>)>>,
      <<DefaultOptions, MapOf(<<4, 2>>, << BadUrlTileL(1), TextMarkerL(2), PolylineL(3),
                                           CircleMarkerL(4) >>)>>,
      <<PlainOptions, MapOf(<<4, 2>>, << MarkerL(1), BadCircleL(2), FarMarkerL(3) >>)>>,
      <<PlainOptions, MapOf(<<4, 2>>, << HoledPolygonL(1), OffCanvasPolylineL(2),
                                         DashedPolylineL(3), TextMarkerL(4) >>)>> }

\* the state after construction of a control of one of the given variants on
\* one of the given maps
InitOf(variants, scenarios) ==
    /\ variant \in variants
    /\ \E sc \in scenarios : options = sc[1] /\ map = sc[2]
    /\ scaleInput = Num(options.minScale)
    \* every <option> is given a selected attribute, so the last one is selected
    /\ formatSel = IF variant = "new" /\ options.showFormatSelector
                   THEN Formats[3] ELSE NoSelector
    /\ isProcessing = FALSE
    /\ progress = FALSE
    /\ tilesImgs = EmptyObj
    /\ markers = EmptyObj
    /\ paths = EmptyObj
    /\ circles = EmptyObj
    /\ bounds = [min |-> <<0, 0>>, max |-> <<0, 0>>]
    /\ zoom = 0
    /\ tileSize = 0
    /\ canvas = 0
    /\ fetches = <<>>
    /\ blobs = <<>>
    /\ exports = <<>>
    /\ clicks = 0
    /\ lastSubmit = [outcome |-> "none", value |-> Blank]

Init == InitOf({"new", "legacy"}, Scenarios)

Next ==
    \/ \E v \in InputValues, f \in Range(Formats) : _handleDownload(v, f)
    \/ \E i \in DOMAIN fetches : TileOnload(i)
    \/ \E i \in DOMAIN fetches : TileOnerror(i)
    \/ \E i \in DOMAIN fetches : TileTimeout(i)
    \/ \E i \in DOMAIN fetches : MarkerOnload(i)
    \/ \E i \in DOMAIN fetches : MarkerOnerror(i)
    \/ \E i \in DOMAIN fetches : MarkerTimeout(i)
    \/ \E k \in DOMAIN blobs, blob \in BOOLEAN : BlobCallback(k, blob)
    \/ \E v \in InputValues : LegacyClick(v)
    \/ \E i \in DOMAIN fetches : LegacyTileOnload(i)
    \/ \E i \in DOMAIN fetches : LegacyMarkerOnload(i)
    \/ \E k \in DOMAIN blobs, blob \in BOOLEAN : LegacyBlobCallback(k, blob)

Spec == Init /\ [][Next]_vars

-----------------------------------------------------------------------------
(* L.Control.BigImage alone, with every image it asks for loading in the   *)
(* end and every toBlob callback run.                                      *)

LegacyInit == InitOf({"legacy"}, Scenarios)

LegacyNext ==
    \/ \E v \in InputValues : LegacyClick(v)
    \/ \E i \in DOMAIN fetches : LegacyTileOnload(i)
    \/ \E i \in DOMAIN fetches : LegacyMarkerOnload(i)
    \/ \E k \in DOMAIN blobs, blob \in BOOLEAN : LegacyBlobCallback(k, blob)

LegacyFairSpec ==
    /\ LegacyInit /\ [][LegacyNext]_vars
    /\ WF_vars(\E i \in DOMAIN fetches : LegacyTileOnload(i))
    /\ WF_vars(\E i \in DOMAIN fetches : LegacyMarkerOnload(i))
    /\ WF_vars(\E k \in DOMAIN blobs, blob \in BOOLEAN : LegacyBlobCallback(k, blob))

-----------------------------------------------------------------------------
(* BigImageControl on maps with several images per export, and a user who  *)
(* zooms the map while an export runs.                                     *)

\* a tile layer with tiles of 4 px
GridTileL(id) == [Layer(id, "tile") EXCEPT !.tileSize = 4]
\* the same layer on a world one tile wide: _adjustTilePoint wraps every x to 0
WrapTileL(id) == [GridTileL(id) EXCEPT !.wrap = 1]

\* only scale 1 is accepted, showFormatSelector: false
UnscaledOptions == Options(2, 2, FALSE)
\* only scale 1.5 is accepted, showFormatSelector: false
ScaledOptions == Options(3, 3, FALSE)

AssetScenarios ==
    { <<UnscaledOptions, MapAt(<<2, -1>>, <<4, 2>>, << GridTileL(1) >>)>>,
      <<ScaledOptions, MapAt(<<0, 5>>, <<2, 1>>, << GridTileL(1) >>)>>,
      <<UnscaledOptions, MapOf(<<4, 2>>, << WrapTileL(1) >>)>>,
      <<UnscaledOptions, MapOf(<<4, 2>>, << MarkerL(1), MarkerL(2) >>)>>,
      <<ScaledOptions, MapOf(<<4, 2>>, << MarkerL(1), PolygonL(2), CircleL(3) >>)>> }

\* the user zooms in one level about the centre of the viewport: the map's
\* zoom and pixel origin change, whatever the control is doing
setZoom ==
    /\ map.zoom < map.zoom0 + MaxZoomIns
    /\ map' = [map EXCEPT !.zoom = @ + 1,
                          !.origin = <<2 * @[1] + map.size[1] \div 2,
                                       2 * @[2] + map.size[2] \div 2>>]
    /\ UNCHANGED <<variant, options, scaleInput, formatSel, isProcessing, progress,
                   tilesImgs, markers, paths, circles, bounds, zoom, tileSize, canvas,
                   fetches, blobs, exports, clicks, lastSubmit>>

AssetInit == InitOf({"new"}, AssetScenarios)

AssetNext ==
    \/ \E v \in InputValues, f \in Range(Formats) : _handleDownload(v, f)
    \/ \E i \in DOMAIN fetches : TileOnload(i)
    \/ \E i \in DOMAIN fetches : TileOnerror(i)
    \/ \E i \in DOMAIN fetches : TileTimeout(i)
    \/ \E i \in DOMAIN fetches : MarkerOnload(i)
    \/ \E i \in DOMAIN fetches : MarkerOnerror(i)
    \/ \E i \in DOMAIN fetches : MarkerTimeout(i)
    \/ \E k \in DOMAIN blobs, blob \in BOOLEAN : BlobCallback(k, blob)
    \/ setZoom

AssetSpec == AssetInit /\ [][AssetNext]_vars

\* timers fire: a pending setTimeout callback is run by the event loop
FairSpec ==
    /\ Spec
    /\ WF_vars(\E i \in DOMAIN fetches : TileTimeout(i))
    /\ WF_vars(\E i \in DOMAIN fetches : MarkerTimeout(i))

-----------------------------------------------------------------------------
(* Vocabulary of the properties *)

New == variant = "new"

Exports == DOMAIN exports

\* a scale that is absent (or no number) or outside [minScale, maxScale]
OutsideRange(v) == v.blank \/ v.n < options.minScale \/ v.n > options.maxScale

\* this step is a click on the download button
Clicked == clicks' = clicks + 1

\* nothing of an export happened in this step: no canvas, no task, caches
\* and busy state as before
NoExportWork ==
    /\ exports' = exports /\ canvas' = canvas /\ fetches' = fetches /\ blobs' = blobs
    /\ tilesImgs' = tilesImgs /\ markers' = markers /\ paths' = paths /\ circles' = circles
    /\ bounds' = bounds /\ zoom' = zoom
    /\ isProcessing' = isProcessing /\ progress' = progress

-----------------------------------------------------------------------------
(* C1 *)

\* C1 as stated: in both variants a submit whose scale is absent, no number
\* or outside [minScale, maxScale] resets the input to minScale and does
\* no export work.
C1_AnyInvalidSubmitResets ==
    [][(Clicked /\ OutsideRange(lastSubmit'.value))
          => (NoExportWork /\ scaleInput' = Num(options.minScale))]_vars

\* C1 amended: such a submit never does export work; it resets the input to
\* minScale unless BigImageControl is processing an export, in which case
\* the click is ignored and the input keeps what was entered.
C1_InvalidSubmitResets ==
    [][(Clicked /\ OutsideRange(lastSubmit'.value))
          => /\ NoExportWork
             /\ ~isProcessing => scaleInput' = Num(options.minScale)
             /\ isProcessing => scaleInput' = lastSubmit'.value]_vars

\* an empty scale was submitted after an earlier export and the input reset
C1_Witness ==
    /\ New
    /\ exports # <<>>
    /\ lastSubmit.outcome = "invalid"
    /\ lastSubmit.value = Blank
    /\ scaleInput = Num(options.minScale)

-----------------------------------------------------------------------------
(* C2 *)

Busy == isProcessing \/ progress

\* C2: in BigImageControl a busy control (an accepted submit whose export
\* is under way) always becomes non-busy again: isProcessing false and
\* the progress indicator off.
C2_BusyEnds == (New /\ Busy) ~> (~isProcessing /\ ~progress)

\* an export whose tile never loaded and timed out has left the busy state
C2_Witness ==
    /\ New
    /\ ~Busy
    /\ \E i \in DOMAIN fetches :
          /\ fetches[i].kind = "tile"
          /\ fetches[i].endedBy = "timeout"
          /\ fetches[i].img = "loading"
          /\ exports[fetches[i].exp].phase \in {"encoding", "done"}

-----------------------------------------------------------------------------
(* C3 *)

Collecting == {e \in Exports : exports[e].phase = "collecting"}

\* from Capturing until the blob callback has run
InFlight == {e \in Exports : exports[e].phase \in {"collecting", "encoding"}}

\* C3 as stated: in BigImageControl at most one export is in flight, from
\* Capturing until its blob callback has run.
C3_OneExportUntilBlob == New => Cardinality(InFlight) <= 1

\* C3 amended: in BigImageControl, while an export is in a phase from
\* Capturing through Rendering (until canvas.toBlob has been called), the
\* control is processing, a further submit is rejected and starts no second
\* export, and at most one export is in these phases.
C3_OneExportUntilEncoding ==
    /\ [](New => (Cardinality(Collecting) <= 1 /\ (Collecting # {} => isProcessing)))
    /\ [][(New /\ Collecting # {} /\ Clicked)
             => (NoExportWork /\ lastSubmit'.outcome = "busy")]_vars

\* a valid scale was submitted while an export was collecting, and refused
C3_Witness ==
    /\ New
    /\ Collecting # {}
    /\ lastSubmit.outcome = "busy"
    /\ ~OutsideRange(lastSubmit.value)
    /\ Len(exports) = 1

-----------------------------------------------------------------------------
(* C4 *)

\* C4: in BigImageControl a failure while one layer is collected does not
\* abort the export, whatever the layer's kind: once Collect is over Render
\* has run (and, unless a draw threw, toBlob has been called).
C4_CollectFailureContained ==
    New => \A e \in Exports :
              exports[e].phase # "collecting"
                  => (exports[e].rendered /\ exports[e].error # "collect")

-----------------------------------------------------------------------------
(* C5 *)

\* C5: in BigImageControl Render starts only when every tile and marker
\* task the export dispatched has settled.
C5_RenderAfterAllSettled ==
    New => \A e \in Exports :
              exports[e].rendered => exports[e].pendingAtRender = 0

\* an export with a tile task and a marker task has rendered
C5_Witness ==
    /\ New
    /\ \E e \in Exports :
          /\ exports[e].rendered
          /\ \E i, j \in DOMAIN fetches :
                /\ fetches[i].exp = e /\ fetches[i].kind = "tile"
                /\ fetches[j].exp = e /\ fetches[j].kind = "marker"

-----------------------------------------------------------------------------
(* C6 *)

\* the fetches of export e that ended by a load error or by their timeout
FailedFetches(e) ==
    {i \in DOMAIN fetches :
        fetches[i].exp = e /\ fetches[i].endedBy \in {"error", "timeout"}}

\* the tile and marker images export e drew
DrawnImages(e) ==
    {exports[e].draws[k].img :
        k \in {j \in DOMAIN exports[e].draws : exports[e].draws[j].op \in {"tile", "marker"}}}

\* C6: in BigImageControl a tile or marker-icon fetch of an export that
\* ended by load error or by its timeout has no cache entry when Render
\* runs and is not drawn, whatever happens to the image request afterwards.
C6_FailedFetchNotDrawn ==
    New => \A e \in Exports :
              exports[e].rendered => FailedFetches(e) \cap DrawnImages(e) = {}

-----------------------------------------------------------------------------
(* C7 *)

\* the centre of bounds b, doubled
Centre2(b) == <<b.min[1] + b.max[1], b.min[2] + b.max[2]>>

Extent(b) == <<b.max[1] - b.min[1], b.max[2] - b.min[2]>>

\* the bounds of export e keep the centre of the captured bounds, with
\* width and height multiplied by its scale (in halves)
BoundsScaled(e) ==
    /\ Centre2(exports[e].bounds) = Centre2(exports[e].bounds0)
    /\ \A k \in 1 .. 2 :
          2 * Extent(exports[e].bounds)[k] = exports[e].scale * Extent(exports[e].bounds0)[k]

\* C7 as stated: in BigImageControl, for every accepted scale s the canvas
\* is viewportWidth*s by viewportHeight*s and the expanded bounds keep the
\* centre of the captured bounds with width and height multiplied by s.
C7_CanvasIsViewportTimesScale ==
    New => \A e \in Exports :
              /\ \A k \in 1 .. 2 : 2 * exports[e].cs[k] = exports[e].size[k] * exports[e].scale
              /\ BoundsScaled(e)

\* C7 amended: for an accepted scale s <= 1 the canvas is the viewport and
\* the bounds are the captured bounds; for s > 1 the canvas is
\* floor(viewportWidth*s) by floor(viewportHeight*s) and the bounds keep the
\* centre of the captured bounds with width and height multiplied by s.
C7_CanvasAndBoundsByScale ==
    New => \A e \in Exports :
              /\ exports[e].scale >= options.minScale
              /\ exports[e].scale <= options.maxScale
              /\ exports[e].scale <= 2 =>
                    /\ exports[e].cs = exports[e].size
                    /\ exports[e].bounds = exports[e].bounds0
              /\ exports[e].scale > 2 =>
                    /\ \A k \in 1 .. 2 :
                          exports[e].cs[k] = (exports[e].size[k] * exports[e].scale) \div 2
                    /\ BoundsScaled(e)

\* a 5 x 3 viewport was exported at scale 1.5 on a 7 x 4 canvas, and the
\* same viewport at scale 0.5 on a 5 x 3 canvas
C7_Witness ==
    /\ New
    /\ \E e, f \in Exports :
          /\ exports[e].scale = 3 /\ exports[e].size = <<5, 3>> /\ exports[e].cs = <<7, 4>>
          /\ exports[f].scale = 1 /\ exports[f].cs = <<5, 3>>

-----------------------------------------------------------------------------
(* C8 *)

\* an exception left Collect or Render of export e
Escaped(e) == exports[e].error \in {"collect", "render"}

\* getTileUrl threw while a tile of export e was requested
UrlThrew(e) == \E i \in DOMAIN fetches : fetches[i].exp = e /\ fetches[i].endedBy = "urlerror"

\* a blob of export e is awaited
Encoding(e) == \E k \in DOMAIN blobs : blobs[k].exp = e

\* C8 as stated: in BigImageControl, if any exception is raised during
\* Collect or Render of an export, exactly one alert is shown and no
\* download is triggered for that export.
C8_AnyExceptionAlerts ==
    New => \A e \in Exports :
              (Escaped(e) \/ UrlThrew(e))
                  => (exports[e].alerts = 1 /\ exports[e].downloads = <<>>)

\* C8 amended: in BigImageControl an exception raised by a draw of Render,
\* or raised while a path layer is collected, ends the export: exactly one
\* alert is shown, toBlob is never called and no download is triggered for
\* that export, and the step that raised it leaves the control non-busy.
\* An exception of getTileUrl is caught where the tile is requested and
\* causes no alert.
C8_EscapedExceptionAlerts ==
    /\ [](New => \A e \in Exports :
                    /\ Escaped(e) =>
                          /\ exports[e].phase = "failed"
                          /\ exports[e].alerts = 1
                          /\ exports[e].downloads = <<>>
                          /\ ~Encoding(e)
                    /\ exports[e].error = "none" => exports[e].alerts = 0)
    /\ [][New => \A e \in DOMAIN exports' :
                    (exports'[e].phase = "failed"
                        /\ (e \in Exports => exports[e].phase # "failed"))
                        => (~isProcessing' /\ ~progress')]_vars

\* a draw of Render threw on one export and a path layer's collection on no
\* export of this map; the control is idle and the alert was shown once
C8_Witness ==
    /\ New
    /\ ~Busy
    /\ \E e \in Exports :
          /\ exports[e].error = "render"
          /\ exports[e].rendered
          /\ exports[e].alerts = 1

-----------------------------------------------------------------------------
(* C9 *)

\* the format the download of export e is to have: the selector's value
\* when toBlob was called if the panel has a selector, else exportFormat
FormatOf(e) ==
    IF options.showFormatSelector THEN exports[e].selector ELSE options.exportFormat

\* position of step s in the log of the link's object URL, 0 if absent
StepAt(log, s) ==
    IF \E k \in DOMAIN log : log[k] = s THEN CHOOSE k \in DOMAIN log : log[k] = s ELSE 0

\* C9: in BigImageControl, when encoding yields no blob one alert is shown
\* and no download is triggered; when it yields a blob exactly one download
\* named <fileName>.<format> is triggered, the format being the selector's
\* if there is a selector and options.exportFormat otherwise, and the
\* object URL is revoked only after the link was clicked.
C9_BlobCallback ==
    New => \A e \in Exports :
              exports[e].phase = "done" =>
                 IF exports[e].error = "noblob"
                 THEN /\ exports[e].alerts = 1
                      /\ exports[e].downloads = <<>>
                      /\ exports[e].urlLog = <<>>
                 ELSE /\ exports[e].alerts = 0
                      /\ exports[e].downloads =
                            << [base |-> options.fileName, ext |-> FormatOf(e)] >>
                      /\ StepAt(exports[e].urlLog, "click") > 0
                      /\ StepAt(exports[e].urlLog, "revokeObjectURL")
                            > StepAt(exports[e].urlLog, "click")
                      /\ Len(exports[e].urlLog) = 3

\* with a selector showing jpeg one export got no blob and another was
\* downloaded as mapExport.jpeg
C9_Witness ==
    /\ New
    /\ options.showFormatSelector
    /\ options.exportFormat # "jpeg"
    /\ \E e, f \in Exports :
          /\ exports[e].phase = "done" /\ exports[e].error = "noblob"
          /\ exports[f].phase = "done"
          /\ exports[f].downloads = << [base |-> "mapExport", ext |-> "jpeg"] >>

-----------------------------------------------------------------------------
(* C10 *)

NoLayers == map.layers = <<>>

\* the canvas of export e holds the background fill over its whole area and
\* nothing else
OnlyBackground(e) ==
    /\ Len(exports[e].draws) = 1
    /\ exports[e].draws[1].op = "fillRect"
    /\ exports[e].draws[1].x = 0 /\ exports[e].draws[1].y = 0
    /\ exports[e].draws[1].w = Px(exports[e].cs[1])
    /\ exports[e].draws[1].h = Px(exports[e].cs[2])

\* once the blob of export e has arrived: one download and no alert
Downloaded(e) ==
    (exports[e].phase = "done" /\ exports[e].error # "noblob")
        => (Len(exports[e].downloads) = 1 /\ exports[e].alerts = 0)

\* C10 as stated: in BigImageControl an export of a map with zero layers at
\* any accepted scale completes: the canvas has viewport*scale dimensions
\* and only the background fill, and when encoding yields a blob exactly
\* one download is triggered and no alert is shown.
C10_EmptyMapViewportTimesScale ==
    (New /\ NoLayers) => \A e \in Exports :
        /\ exports[e].phase \in {"encoding", "done"}
        /\ \A k \in 1 .. 2 : 2 * exports[e].cs[k] = exports[e].size[k] * exports[e].scale
        /\ OnlyBackground(e)
        /\ Downloaded(e)

\* C10 amended: such an export reaches toBlob in the task of the click; its
\* canvas is the viewport for a scale s <= 1 and floor(viewportWidth*s) by
\* floor(viewportHeight*s) for s > 1, and holds only the background fill;
\* when encoding yields a blob exactly one download is triggered and no
\* alert is shown.
C10_EmptyMapExport ==
    (New /\ NoLayers) => \A e \in Exports :
        /\ exports[e].phase \in {"encoding", "done"}
        /\ exports[e].rendered
        /\ exports[e].scale <= 2 => exports[e].cs = exports[e].size
        /\ exports[e].scale > 2 =>
              \A k \in 1 .. 2 :
                  exports[e].cs[k] = (exports[e].size[k] * exports[e].scale) \div 2
        /\ OnlyBackground(e)
        /\ Downloaded(e)

\* a map without layers was exported at scale 1.5 and downloaded
C10_Witness ==
    /\ New
    /\ NoLayers
    /\ \E e \in Exports :
          /\ exports[e].scale = 3
          /\ exports[e].phase = "done"
          /\ Len(exports[e].downloads) = 1
          /\ Len(exports[e].draws) = 1

-----------------------------------------------------------------------------
(* C11: the tile indices requested for a tile layer *)

TileLayers == {l \in Range(map.layers) : l.kind = "tile"}

\* the fetches of export e for tiles of layer id
TileFetches(e, id) ==
    {i \in DOMAIN fetches :
        fetches[i].exp = e /\ fetches[i].kind = "tile" /\ fetches[i].layer = id}

\* the pair (i, j) of the two loops a tile was requested for, read back from
\* the place it was given on the canvas
TileIndex(f, b) ==
    <<(f.x + b.min[1]) \div Px(f.tileSize), (f.y + b.min[2]) \div Px(f.tileSize)>>

Requested(e, id) == {TileIndex(fetches[i], exports[e].bounds) : i \in TileFetches(e, id)}

\* the pairs between the two corners, rows above the world left out
IndexSet(lo, hi) ==
    {<<i, j>> \in (lo[1] .. hi[1]) \X (lo[2] .. hi[2]) : j >= 0}

\* C11 as stated: the requested indices are the pairs from floor(min/tileSize)
\* up to ceil(max/tileSize) on each axis with j >= 0, each requested once.
C11_FloorToCeil ==
    New => \A e \in Exports : \A l \in TileLayers :
        LET b == exports[e].bounds
            ts == Px(l.tileSize)
        IN exports[e].error # "collect" =>
              /\ Requested(e, l.id) =
                     IndexSet(<<Floor(b.min[1], ts), Floor(b.min[2], ts)>>,
                              <<Ceil(b.max[1], ts), Ceil(b.max[2], ts)>>)
              /\ Cardinality(TileFetches(e, l.id)) = Cardinality(Requested(e, l.id))

\* C11 amended: the requested indices are the pairs from floor(min/tileSize)
\* up to floor(max/tileSize) on each axis of the expanded bounds with j >= 0;
\* none of them is skipped, none outside is requested, each is requested once.
C11_FloorToFloor ==
    New => \A e \in Exports : \A l \in TileLayers :
        LET b == exports[e].bounds
            ts == Px(l.tileSize)
        IN exports[e].error # "collect" =>
              /\ Requested(e, l.id) =
                     IndexSet(<<Floor(b.min[1], ts), Floor(b.min[2], ts)>>,
                              <<Floor(b.max[1], ts), Floor(b.max[2], ts)>>)
              /\ Cardinality(TileFetches(e, l.id)) = Cardinality(Requested(e, l.id))

\* an export whose bounds start above the world and end inside a tile asked
\* for two tiles of a layer
C11_Witness ==
    /\ New
    /\ \E e \in Exports : \E l \in TileLayers :
          /\ exports[e].bounds.min[2] < 0
          /\ exports[e].bounds.max[1] % Px(l.tileSize) # 0
          /\ Cardinality(Requested(e, l.id)) = 2

-----------------------------------------------------------------------------
(* C12: which paths are cached, and with which vertices *)

\* the layers handed to _processPath that have a vertex list
VertexPaths == {l \in Range(map.layers) : l.kind = "path" /\ l.depth > 0}

\* every vertex of the layer: its polygons' rings' points, in their order
AllVertices(l) == Flat(Flat(l.polys))

\* the latest export, whose Collect filled this.paths
LastExport == Len(exports)

\* C12: a path none of whose projected vertices lies on the canvas has no
\* cache entry; a path with a vertex on the canvas is cached with every
\* vertex of the layer, in the original order.
C12_PathCachedWhole ==
    (New /\ LastExport > 0 /\ exports[LastExport].error # "collect") =>
        \A l \in VertexPaths :
            LET e == LastExport
                all == PathParts(AllVertices(l), exports[e].bounds)
            IN IF \E k \in DOMAIN all : _isPointVisible(all[k], exports[e].cs)
               THEN l.id \in DOMAIN paths /\ paths[l.id].parts = all
               ELSE l.id \notin DOMAIN paths

-----------------------------------------------------------------------------
(* C13: the same export twice *)

\* the fetches export e dispatched, in the order of dispatch
OwnFetches(e) == SetToSeq({i \in DOMAIN fetches : fetches[i].exp = e})

\* what became of each of them: how its promise was settled and what became
\* of its image
Outcomes(e) ==
    [k \in DOMAIN OwnFetches(e) |->
        LET f == fetches[OwnFetches(e)[k]]
        IN [asset |-> <<f.kind, f.layer, f.key>>, endedBy |-> f.endedBy, img |-> f.img]]

\* a draw with the image named by what it shows (the draw's layer and key)
\* rather than by the Image object
SameAsset(d) == [d EXCEPT !.img = IF @ = 0 THEN 0 ELSE 1]

\* what the Render of export e drew
Drawn(e) == [k \in DOMAIN exports[e].pass |-> SameAsset(exports[e].pass[k])]

\* C13: two exports at the same scale, one after the other on an unchanged
\* map, whose fetches had the same outcomes, draw the same sequence.
C13_RepeatExportSame ==
    New => \A e1, e2 \in Exports :
        (/\ e1 < e2
         /\ exports[e1].rendered /\ exports[e2].rendered
         /\ exports[e1].scale = exports[e2].scale
         /\ Outcomes(e1) = Outcomes(e2))
        => Drawn(e1) = Drawn(e2)

-----------------------------------------------------------------------------
(* C14: whose tasks write the caches of an export *)

\* the images the Render of export e took from the caches
RenderedImages(e) ==
    {exports[e].pass[k].img : k \in DOMAIN exports[e].pass} \ {0}

\* C14: the images in the caches when an export renders were put there by
\* that export's own load callbacks, and no callback of another export
\* assigns to the caches an export set up.
C14_OwnWritesOnly ==
    New => \A e \in Exports :
        /\ \A i \in RenderedImages(e) : fetches[i].exp = e
        /\ \A cat \in Categories : \A k \in DOMAIN exports[e].writes[cat] :
               exports[e].writes[cat][k].by = e

-----------------------------------------------------------------------------
(* C15: the zoom and bounds captured at the start of an export *)

\* a world point on the canvas of export e, by the zoom and the expanded
\* bounds the export captured
Captured(e, p) ==
    <<Px(p[1]) * ZoomFactor(exports[e].zoom) - exports[e].bounds.min[1],
      Px(p[2]) * ZoomFactor(exports[e].zoom) - exports[e].bounds.min[2]>>

\* a draw of export e is placed and sized by the captured state
ByCapturedState(e, d) ==
    LET l == LayerById(d.id)
        ts == Px(l.tileSize)
    IN CASE d.op = "tile" ->
              /\ (d.x + exports[e].bounds.min[1]) % ts = 0
              /\ (d.y + exports[e].bounds.min[2]) % ts = 0
              /\ d.key[3] = exports[e].zoom
         [] d.op \in {"marker", "text"} ->
              <<d.x + Px(l.anchor[1]), d.y + Px(l.anchor[2])>> = Captured(e, l.pos)
         [] d.op = "path" ->
              d.parts = [k \in DOMAIN PathLatlngs(l).pts |-> Captured(e, PathLatlngs(l).pts[k])]
         [] d.op = "circle" ->
              /\ <<d.x, d.y>> = Captured(e, l.pos)
              /\ d.w = Px(Max(l.radius * ZoomFactor(exports[e].zoom), 1))
              /\ d.h = Px(Max(l.radiusY * ZoomFactor(exports[e].zoom), 1))
         [] OTHER -> TRUE

\* C15: every tile, marker, path and circle an export draws is placed and
\* sized by the zoom and bounds captured when the export started, also when
\* the map was zoomed while the export waited for its images.
C15_DrawnByCapturedState ==
    New => \A e \in Exports : \A k \in DOMAIN exports[e].pass :
        ByCapturedState(e, exports[e].pass[k])

-----------------------------------------------------------------------------
(* C16: the canvas drawing state between the draws of Render *)

\* draw k of ds is drawn with something an earlier draw left in the context
Affected(ds, k) == \E a \in Uses(ds[k]) : CtxBefore(ds, k)[a] # Neutral[a]

\* C16: after each draw of Render the drawing state (alpha, line dash, line
\* width, stroke style, cap, join, transform) is neutral again, and no draw
\* is made with a style an earlier draw left behind.
C16_NeutralAfterEachDraw ==
    New => \A e \in Exports : \A k \in DOMAIN exports[e].pass :
        /\ CtxAfter(exports[e].pass, k) = Neutral
        /\ ~Affected(exports[e].pass, k)

-----------------------------------------------------------------------------
(* C17: the order of the categories in Render *)

\* the place of a draw's category in the order background, tiles, paths,
\* markers, circles
Rank(d) ==
    CASE d.op = "fillRect" -> 0
      [] d.op = "tile" -> 1
      [] d.op = "path" -> 2
      [] d.op \in {"marker", "text"} -> 3
      [] d.op = "circle" -> 4

\* no draw of a later category precedes a draw of an earlier one
InCategoryOrder(ds) ==
    \A j, k \in DOMAIN ds : j < k => Rank(ds[j]) <= Rank(ds[k])

Rendered == {e \in Exports : exports[e].rendered}

\* C17 as stated: every export that reaches Render, of either control, draws
\* the background fill first, then tiles, paths, markers, circles.
C17_BackgroundThenCategories ==
    \A e \in Rendered :
        /\ exports[e].pass # <<>>
        /\ exports[e].pass[1].op = "fillRect"
        /\ InCategoryOrder(exports[e].pass)

\* C17 amended: in every export that reaches Render the draws come in the
\* order tiles, paths, markers, circles; BigImageControl draws one background
\* fill before all of them, the legacy control draws none.
C17_CategoryOrder ==
    \A e \in Rendered :
        LET ds == exports[e].pass
        IN /\ InCategoryOrder(ds)
           /\ New => /\ ds # <<>>
                      /\ \A k \in DOMAIN ds : (ds[k].op = "fillRect") <=> (k = 1)
           /\ ~New => \A k \in DOMAIN ds : ds[k].op # "fillRect"

\* a Render of BigImageControl drew the background, a tile, a path, a marker
\* and a circle
C17_Witness ==
    /\ New
    /\ \E e \in Rendered :
          {exports[e].pass[k].op : k \in DOMAIN exports[e].pass}
              = {"fillRect", "tile", "path", "marker", "circle"}

-----------------------------------------------------------------------------
(* C18: how often a cache slot is assigned within one export *)

\* the assignments export e's own tasks made to its cache of one category
OwnWrites(e, cat) ==
    LET Own(w) == w.by = e
    IN SelectSeq(exports[e].writes[cat], Own)

\* C18: within one export no cache slot (a tile key of a layer, a marker,
\* path or circle id) is assigned a second time, and no layer's tile map is
\* initialised again after a tile was recorded in it.
C18_SlotAssignedOnce ==
    New => \A e \in Exports : \A cat \in Categories :
        LET w == OwnWrites(e, cat)
        IN \A j, k \in DOMAIN w :
              (j < k /\ w[j].layer = w[k].layer /\ ~w[j].init)
                  => (~w[k].init /\ w[j].key # w[k].key)

-----------------------------------------------------------------------------
(* C19: the order of the draws within a category *)

RECURSIVE FirstOccurrences(_)
\* a list without the repetitions of its elements
FirstOccurrences(s) ==
    IF s = <<>> THEN <<>>
    ELSE LET Other(x) == x # Head(s)
         IN <<Head(s)>> \o FirstOccurrences(SelectSeq(Tail(s), Other))

\* the elements of s that are in the set T, in the order of s
Among(s, T) == LET In(x) == x \in T IN SelectSeq(s, In)

\* the layer ids of the draws of the given operations, in draw order
DrawnIds(e, ops) ==
    LET Is(d) == d.op \in ops
        ds == SelectSeq(exports[e].pass, Is)
    IN [k \in DOMAIN ds |-> ds[k].id]

\* the keys of the tiles of layer id, in draw order
DrawnKeys(e, id) ==
    LET Is(d) == d.op = "tile" /\ d.id = id
        ds == SelectSeq(exports[e].pass, Is)
    IN [k \in DOMAIN ds |-> ds[k].key]

\* the layer ids in the order in which they first got an entry in the cache
InsertedIds(e, cat) ==
    LET Is(w) == ~w.init
        ws == SelectSeq(exports[e].writes[cat], Is)
    IN FirstOccurrences([k \in DOMAIN ws |-> ws[k].layer])

\* the tile keys of layer id in the order in which they first got an entry
InsertedKeys(e, id) ==
    LET Is(w) == ~w.init /\ w.layer = id
        ws == SelectSeq(exports[e].writes["tile"], Is)
    IN FirstOccurrences([k \in DOMAIN ws |-> ws[k].key])

\* the draws of the ids drawn follow the order of their insertion
InInsertionOrder(drawn, inserted) == drawn = Among(inserted, Range(drawn))

Ascending(s) == \A j, k \in DOMAIN s : j < k => s[j] < s[k]

DrawOps(cat) == IF cat = "marker" THEN {"marker", "text"} ELSE {cat}

\* C19 as stated: in each category the entries are drawn in the order in
\* which they were inserted into the cache.
C19_InsertionOrder ==
    New => \A e \in Rendered :
        /\ \A cat \in {"path", "marker", "circle"} :
               InInsertionOrder(DrawnIds(e, DrawOps(cat)), InsertedIds(e, cat))
        /\ \A l \in TileLayers :
               InInsertionOrder(DrawnKeys(e, l.id), InsertedKeys(e, l.id))

\* C19 amended: the tiles of one layer are drawn in the order in which their
\* keys were inserted; tile layers, paths, markers and circles are drawn in
\* ascending order of their layer ids, whatever the order of insertion.
C19_IdOrder ==
    New => \A e \in Rendered :
        /\ \A cat \in {"path", "marker", "circle"} : Ascending(DrawnIds(e, DrawOps(cat)))
        /\ Ascending(FirstOccurrences(DrawnIds(e, {"tile"})))
        /\ \A l \in TileLayers :
               InInsertionOrder(DrawnKeys(e, l.id), InsertedKeys(e, l.id))

\* the icon of marker 2 loaded before the icon of marker 1, and the Render
\* drew marker 1 before marker 2
C19_Witness ==
    /\ New
    /\ \E e \in Rendered :
          /\ InsertedIds(e, "marker") = <<2, 1>>
          /\ DrawnIds(e, {"marker"}) = <<1, 2>>

-----------------------------------------------------------------------------
(* C20: the legacy control leaves its busy state *)

\* C20: in L.Control.BigImage every accepted click is followed by the control
\* leaving its busy state (print-disabled removed, loader hidden).
C20_LegacyBusyEnds == (variant = "legacy" /\ progress) ~> ~progress

====
